---------------------------- MODULE Spec2Model ----------------------------
(***************************************************************************)
(* ALTA (a = 3, p = 5): the ring buffer shared by the send and the receive *)
(* side, the send pipeline, the receive pipeline and the wire codec of a   *)
(* buffer entry.                                                           *)
(*                                                                         *)
(* An Option<T> is a sequence of length 0 (None) or 1 (Some).  A 32-byte   *)
(* hash [b; 32] and a 64-byte signature [b; 64] are held in the buffers by *)
(* their fill byte b; the codec expands them to their bytes.               *)
(***************************************************************************)
EXTENDS Integers, Sequences, FiniteSets, TLC

VARIABLES
    mode,               \* which driver owns the buffer: "send", "recv", "cursor"
    buffer,             \* Buffer.buffer: slot -> Option<BufferEntry>
    lowest_id,          \* Buffer.lowest_id
    latest_id,          \* Buffer.latest_id
    next_node_id_hash,  \* Buffer.next_node_id_hash
    state_to_pop,       \* Buffer.state_to_pop
    lastOp,             \* the operation called last
    lastId,             \* its identifier argument
    lastRes,            \* what it returned
    out,                \* the entries the last pop_ready_in_sequence returned
    popped,             \* identifiers of every entry popped so far, in order
    everInserted,       \* an insert_in_sequence has succeeded
    rejected,           \* identifiers whose total hash an authenticated parent refused
    visited,            \* the identifiers next_node_id_hash has returned, in order
    lazy,               \* a cursor-driven forward was made with ready entries left unpopped
    pc,                 \* where the round-trip run or the codec run stands
    nodes,              \* round trip: the entries the send buffer has produced; else the entries handed to insert
    next_id,            \* round trip: the next identifier push_pkts inserts
    sweep_i,            \* round trip: the index of the forw_hash loop
    fed,                \* round trip: how many entries the receive buffer was given
    extraSigned,        \* round trip: an entry other than the test's carries a signature
    centry,             \* codec: the entry to encode
    cpayload,           \* codec: the payload already in the byte buffer
    cbytes,             \* codec: the byte buffer
    cdecoded,           \* codec: what decode returned
    gi,                 \* graph: the identifier whose successors are taken
    gj,                 \* graph: the identifier whose predecessors are taken
    gout,               \* graph: dependencies_out of gi
    gin,                \* graph: dependencies_in(gj)
    gcur,               \* graph: where a walk from gi along dependencies_out stands
    gmoved,             \* graph: the walk has left gi
    origin,             \* send and cursor runs: identifier -> the identifiers whose forwards_hash pushed a hash on it, in order
    calls               \* the recursive calls the last insert or authenticate_node made

vars == <<mode, buffer, lowest_id, latest_id, next_node_id_hash, state_to_pop,
          lastOp, lastId, lastRes, out, popped, everInserted, rejected,
          visited, lazy, pc, nodes, next_id, sweep_i, fed, extraSigned,
          centry, cpayload, cbytes, cdecoded, gi, gj, gout, gin, gcur, gmoved,
          origin, calls>>

bufVars == <<buffer, lowest_id, latest_id, next_node_id_hash, state_to_pop>>
curVars == <<visited, lazy>>
rtVars == <<pc, nodes, next_id, sweep_i, fed, extraSigned>>
codecVars == <<centry, cpayload, cbytes, cdecoded>>
graphVars == <<gi, gj, gout, gin, gcur, gmoved>>

---------------------------------------------------------------------------
(* lib.rs *)

ALTA_A == 3
ALTA_P == 5

States == {"NotReady", "ReadySent", "Authenticated", "BadAuthentication"}

---------------------------------------------------------------------------
(* buffer/mod.rs: BufferEntry *)

BUFF_SIZE == (ALTA_A * ALTA_P + 1) * 2

index(s) == s % BUFF_SIZE

None == <<>>
Some(x) == <<x>>
IsSome(o) == Len(o) = 1
Unwrap(o) == o[1]

Max(seq) == CHOOSE m \in {seq[i] : i \in 1..Len(seq)} :
                \A i \in 1..Len(seq) : seq[i] <= m

saturating_sub(a, b) == IF a >= b THEN a - b ELSE 0

\* Identifiers stay far below 2^64 in every run checked here, so checked_add
\* never overflows; checked_sub drops the offsets that would go below zero.
RawDependenciesIn(r) ==
    CASE r = 0 -> <<-15, -5, -4, -1, 1>>
      [] r = 1 -> <<1, 3>>
      [] r = 2 -> <<1>>
      [] r = 3 -> <<>>
      [] r = 4 -> <<-2, -1>>

dependencies_in(id) ==
    LET offs == RawDependenciesIn(id % 5)
        all  == [i \in 1..Len(offs) |-> id + offs[i]]
    IN  SelectSeq(all, LAMBDA v : v >= 0)

\* dependencies_out whose residue 2 sends its hash three identifiers ahead.
dependencies_out_skewed(id) ==
    CASE id % 5 = 0 -> <<id + 5, id + 15>>
      [] id % 5 = 1 -> <<id - 1, id + 4>>
      [] id % 5 = 2 -> <<id - 1, id + 3>>
      [] id % 5 = 3 -> <<id - 1, id + 1>>
      [] id % 5 = 4 -> <<id - 3, id + 1>>

dependencies_out(id) ==
    CASE id % 5 = 0 -> <<id + 5, id + 15>>
      [] id % 5 = 1 -> <<id - 1, id + 4>>
      [] id % 5 = 2 -> <<id - 1, id + 2>>
      [] id % 5 = 3 -> <<id - 1, id + 1>>
      [] id % 5 = 4 -> <<id - 3, id + 1>>

new_id(id) ==
    [id           |-> id,
     hashes       |-> <<>>,
     signature    |-> None,
     payload      |-> None,
     dependencies |-> dependencies_in(id),
     state        |-> "NotReady"]

new(id, payload) == [new_id(id) EXCEPT !.payload = Some(payload)]

\* vec![42u8; 20], held by its fill byte
dummy(id) == new(id, 42)

\* The placeholder of the source: [0u8; 32] whatever the entry holds.
compute_total_hash(entry) == 0

compare_hash(entry, hash) ==
    IF entry.state # "Authenticated" THEN "NotAuthenticated"
    ELSE IF \E i \in 1..Len(entry.hashes) : entry.hashes[i] = hash THEN "Ok"
    ELSE "BadAuthentication"

---------------------------------------------------------------------------
(* buffer/mod.rs: Buffer *)

EmptyBuffer == [i \in 0..(BUFF_SIZE - 1) |-> None]

Holds(buf, id) == IsSome(buf[index(id)]) /\ Unwrap(buf[index(id)]).id = id

InWindow(low, id) == id >= low /\ id < low + BUFF_SIZE

get_or_create(buf, low, id) ==
    IF id < low \/ id >= low + BUFF_SIZE
    THEN [res |-> "OutOfBoundId", buffer |-> buf]
    ELSE IF ~Holds(buf, id)
         THEN [res |-> "Ok", buffer |-> [buf EXCEPT ![index(id)] = Some(new_id(id))]]
         ELSE [res |-> "Ok", buffer |-> buf]

\* The cursor with the step of residue 0 at +5.
NextCursorPlus5(id) ==
    CASE id % 5 = 0 -> id + 5
      [] id % 5 = 1 -> saturating_sub(id, 1)
      [] id % 5 = 2 -> id + 2
      [] id % 5 = 3 -> saturating_sub(id, 1)
      [] id % 5 = 4 -> saturating_sub(id, 3)

NextCursor(id) ==
    CASE id % 5 = 0 -> id + 8
      [] id % 5 = 1 -> saturating_sub(id, 1)
      [] id % 5 = 2 -> id + 2
      [] id % 5 = 3 -> saturating_sub(id, 1)
      [] id % 5 = 4 -> saturating_sub(id, 3)

PopQualifies(buf, low, target) ==
    /\ IsSome(buf[index(low)])
    /\ Unwrap(buf[index(low)]).id = low
    /\ Unwrap(buf[index(low)]).state = target

\* A pop loop that steps over an entry that does not qualify instead of
\* stopping at it.
RECURSIVE PopLoopSkipping(_, _, _, _, _)
PopLoopSkipping(buf, low, target, n, acc) ==
    IF n = 0 THEN [buffer |-> buf, lowest_id |-> low, out |-> acc]
    ELSE IF ~PopQualifies(buf, low, target)
    THEN PopLoopSkipping(buf, low + 1, target, n - 1, acc)
    ELSE PopLoopSkipping([buf EXCEPT ![index(low)] = None], low + 1, target, n - 1,
                         Append(acc, Unwrap(buf[index(low)])))

\* The loop of pop_ready_in_sequence with n iterations left.
RECURSIVE PopLoop(_, _, _, _, _)
PopLoop(buf, low, target, n, acc) ==
    IF n = 0 \/ ~PopQualifies(buf, low, target)
    THEN [buffer |-> buf, lowest_id |-> low, out |-> acc]
    ELSE PopLoop([buf EXCEPT ![index(low)] = None], low + 1, target, n - 1,
                 Append(acc, Unwrap(buf[index(low)])))

\* pop_ready_in_sequence that loops as many times as the capacity it gives
\* to the returned vector.
pop_ready_in_sequence_three(buf, low, target) == PopLoop(buf, low, target, 3, <<>>)

pop_ready_in_sequence(buf, low, target) == PopLoop(buf, low, target, BUFF_SIZE, <<>>)

---------------------------------------------------------------------------
(* buffer/send_buf.rs *)

\* insert_in_sequence with the sequencing check made before the window check.
insert_in_sequence_seq_first(buf, low, latest, node) ==
    IF saturating_sub(node.id, 1) # latest
    THEN [res |-> "IllegalInsert", buffer |-> buf, latest_id |-> latest]
    ELSE IF node.id < low \/ node.id >= low + BUFF_SIZE
    THEN [res |-> "OutOfBoundId", buffer |-> buf, latest_id |-> latest]
    ELSE LET g == get_or_create(buf, low, node.id) IN
         [res       |-> "Ok",
          buffer    |-> [g.buffer EXCEPT ![index(node.id)] =
                            Some([Unwrap(@) EXCEPT !.payload = node.payload])],
          latest_id |-> node.id]

\* insert_in_sequence that stores the entry it is given in the slot.
insert_in_sequence_storing(buf, low, latest, node) ==
    IF node.id < low \/ node.id >= low + BUFF_SIZE
    THEN [res |-> "OutOfBoundId", buffer |-> buf, latest_id |-> latest]
    ELSE IF saturating_sub(node.id, 1) # latest
    THEN [res |-> "IllegalInsert", buffer |-> buf, latest_id |-> latest]
    ELSE [res       |-> "Ok",
          buffer    |-> [buf EXCEPT ![index(node.id)] = Some(node)],
          latest_id |-> node.id]

insert_in_sequence(buf, low, latest, node) ==
    IF node.id < low \/ node.id >= low + BUFF_SIZE
    THEN [res |-> "OutOfBoundId", buffer |-> buf, latest_id |-> latest]
    ELSE IF saturating_sub(node.id, 1) # latest
    THEN [res |-> "IllegalInsert", buffer |-> buf, latest_id |-> latest]
    ELSE LET g == get_or_create(buf, low, node.id) IN
         IF g.res # "Ok"
         THEN [res |-> g.res, buffer |-> g.buffer, latest_id |-> node.id]
         ELSE [res       |-> "Ok",
               buffer    |-> [g.buffer EXCEPT ![index(node.id)] =
                                 Some([Unwrap(@) EXCEPT !.payload = node.payload])],
               latest_id |-> node.id]

\* The loop that hands the hash to out_dep[k..]; stops at the first error.
RECURSIVE PushHashes(_, _, _, _, _)
PushHashes(buf, low, out_dep, k, hash) ==
    IF k > Len(out_dep) THEN [res |-> "Ok", buffer |-> buf]
    ELSE LET g == get_or_create(buf, low, out_dep[k]) IN
         IF g.res # "Ok" THEN [res |-> g.res, buffer |-> g.buffer]
         ELSE PushHashes(
                 [g.buffer EXCEPT ![index(out_dep[k])] =
                     Some([Unwrap(@) EXCEPT !.hashes = Append(@, hash)])],
                 low, out_dep, k + 1, hash)

\* forwards_hash without the check of the number of hashes.
forwards_hash_no_count(buf, low, id) ==
    IF ~IsSome(buf[index(id)]) THEN [res |-> "Ok", buffer |-> buf]
    ELSE LET entry == Unwrap(buf[index(id)]) IN
         IF entry.state = "ReadySent" THEN [res |-> "Ok", buffer |-> buf]
         ELSE IF id # entry.id THEN [res |-> "OutOfBoundId", buffer |-> buf]
         ELSE IF Max(dependencies_out(entry.id)) >= low + BUFF_SIZE
         THEN [res |-> "OutOfBoundId", buffer |-> buf]
         ELSE PushHashes(
                 [buf EXCEPT ![index(id)] = Some([entry EXCEPT !.state = "ReadySent"])],
                 low, dependencies_out(entry.id), 1, compute_total_hash(entry))

\* forwards_hash that lets an entry go with one hash missing.
forwards_hash_one_short(buf, low, id) ==
    IF ~IsSome(buf[index(id)]) THEN [res |-> "Ok", buffer |-> buf]
    ELSE LET entry == Unwrap(buf[index(id)]) IN
         IF entry.state = "ReadySent" THEN [res |-> "Ok", buffer |-> buf]
         ELSE IF id # entry.id THEN [res |-> "OutOfBoundId", buffer |-> buf]
         ELSE IF Len(entry.dependencies) > Len(entry.hashes) + 1
         THEN [res |-> "MissingHash", buffer |-> buf]
         ELSE IF Max(dependencies_out(entry.id)) >= low + BUFF_SIZE
         THEN [res |-> "OutOfBoundId", buffer |-> buf]
         ELSE PushHashes(
                 [buf EXCEPT ![index(id)] = Some([entry EXCEPT !.state = "ReadySent"])],
                 low, dependencies_out(entry.id), 1, compute_total_hash(entry))

\* forwards_hash that is content with one hash where several are needed.
forwards_hash_any_hash(buf, low, id) ==
    IF ~IsSome(buf[index(id)]) THEN [res |-> "Ok", buffer |-> buf]
    ELSE LET entry == Unwrap(buf[index(id)]) IN
         IF entry.state = "ReadySent" THEN [res |-> "Ok", buffer |-> buf]
         ELSE IF id # entry.id THEN [res |-> "OutOfBoundId", buffer |-> buf]
         ELSE IF Len(entry.dependencies) > 0 /\ Len(entry.hashes) = 0
         THEN [res |-> "MissingHash", buffer |-> buf]
         ELSE IF Max(dependencies_out(entry.id)) >= low + BUFF_SIZE
         THEN [res |-> "OutOfBoundId", buffer |-> buf]
         ELSE PushHashes(
                 [buf EXCEPT ![index(id)] = Some([entry EXCEPT !.state = "ReadySent"])],
                 low, dependencies_out(entry.id), 1, compute_total_hash(entry))

\* forwards_hash that forwards again when called on a ReadySent entry.
forwards_hash_repeating(buf, low, id) ==
    IF ~IsSome(buf[index(id)]) THEN [res |-> "Ok", buffer |-> buf]
    ELSE LET entry == Unwrap(buf[index(id)]) IN
         IF id # entry.id THEN [res |-> "OutOfBoundId", buffer |-> buf]
         ELSE IF Len(entry.hashes) # Len(entry.dependencies)
         THEN [res |-> "MissingHash", buffer |-> buf]
         ELSE IF Max(dependencies_out(entry.id)) >= low + BUFF_SIZE
         THEN [res |-> "OutOfBoundId", buffer |-> buf]
         ELSE PushHashes(
                 [buf EXCEPT ![index(id)] = Some([entry EXCEPT !.state = "ReadySent"])],
                 low, dependencies_out(entry.id), 1, compute_total_hash(entry))

\* forwards_hash that tests the successors against the first window only.
forwards_hash_first_window(buf, low, id) ==
    IF ~IsSome(buf[index(id)]) THEN [res |-> "Ok", buffer |-> buf]
    ELSE LET entry == Unwrap(buf[index(id)]) IN
         IF entry.state = "ReadySent" THEN [res |-> "Ok", buffer |-> buf]
         ELSE IF id # entry.id THEN [res |-> "OutOfBoundId", buffer |-> buf]
         ELSE IF Len(entry.dependencies) # Len(entry.hashes)
         THEN [res |-> "MissingHash", buffer |-> buf]
         ELSE IF Max(dependencies_out(entry.id)) >= BUFF_SIZE
         THEN [res |-> "OutOfBoundId", buffer |-> buf]
         ELSE PushHashes(
                 [buf EXCEPT ![index(id)] = Some([entry EXCEPT !.state = "ReadySent"])],
                 low, dependencies_out(entry.id), 1, compute_total_hash(entry))

\* forwards_hash that marks the entry ReadySent before it looks at the window.
forwards_hash_mark_first(buf, low, id) ==
    IF ~IsSome(buf[index(id)]) THEN [res |-> "Ok", buffer |-> buf]
    ELSE LET entry == Unwrap(buf[index(id)])
             marked == [buf EXCEPT ![index(id)] = Some([entry EXCEPT !.state = "ReadySent"])]
         IN
         IF entry.state = "ReadySent" THEN [res |-> "Ok", buffer |-> buf]
         ELSE IF id # entry.id THEN [res |-> "OutOfBoundId", buffer |-> buf]
         ELSE IF Len(entry.dependencies) # Len(entry.hashes)
         THEN [res |-> "MissingHash", buffer |-> buf]
         ELSE IF Max(dependencies_out(entry.id)) >= low + BUFF_SIZE
         THEN [res |-> "OutOfBoundId", buffer |-> marked]
         ELSE PushHashes(marked, low, dependencies_out(entry.id), 1,
                         compute_total_hash(entry))

forwards_hash(buf, low, id) ==
    IF ~IsSome(buf[index(id)]) THEN [res |-> "Ok", buffer |-> buf]
    ELSE LET entry == Unwrap(buf[index(id)]) IN
         IF entry.state = "ReadySent" THEN [res |-> "Ok", buffer |-> buf]
         ELSE IF id # entry.id THEN [res |-> "OutOfBoundId", buffer |-> buf]
         ELSE IF Len(entry.dependencies) # Len(entry.hashes)
         THEN [res |-> "MissingHash", buffer |-> buf]
         ELSE IF Max(dependencies_out(entry.id)) >= low + BUFF_SIZE
         THEN [res |-> "OutOfBoundId", buffer |-> buf]
         ELSE PushHashes(
                 [buf EXCEPT ![index(id)] = Some([entry EXCEPT !.state = "ReadySent"])],
                 low, dependencies_out(entry.id), 1, compute_total_hash(entry))

\* Who pushed which hash: origin maps an identifier to the identifiers whose
\* forwards_hash has appended a hash to it (node.hashes.push_back(hash)), in
\* the order of the appends.  The hashes themselves are all [0u8; 32].
OriginOf(org, id) == IF id \in DOMAIN org THEN org[id] ELSE <<>>

HashCount(buf, id) ==
    IF Holds(buf, id) THEN Len(Unwrap(buf[index(id)]).hashes) ELSE 0

\* origin after forwards_hash(id) took the buffer from buf to buf2: id is
\* appended for each successor that holds one more hash.
OriginAfter(org, buf, buf2, id) ==
    LET gained == { s \in {dependencies_out(id)[k] : k \in 1..Len(dependencies_out(id))} :
                      HashCount(buf2, s) > HashCount(buf, s) }
    IN  [s \in DOMAIN org \cup gained |->
            IF s \in gained THEN Append(OriginOf(org, s), id) ELSE org[s]]

---------------------------------------------------------------------------
(* buffer/recv_buf.rs *)

\* The loop over the parents out_dep[k..] of an entry that carries no
\* signature: "Authenticated" at the first authenticated parent that holds
\* the hash, "BadAuthentication" at the first one that does not, "NotReady"
\* when no parent is held and authenticated.
RECURSIVE ParentLoop(_, _, _, _)

\* A parent loop that asks the first parent only.
ParentLoopFirst(buf, out_dep, k, node_hash) ==
    IF k > Len(out_dep) \/ ~IsSome(buf[index(out_dep[k])]) THEN "NotReady"
    ELSE LET parent == Unwrap(buf[index(out_dep[k])]) IN
         IF parent.id # out_dep[k] \/ parent.state # "Authenticated"
         THEN "NotReady"
         ELSE CASE compare_hash(parent, node_hash) = "Ok" -> "Authenticated"
                [] compare_hash(parent, node_hash) = "NotAuthenticated" -> "NotReady"
                [] OTHER -> "BadAuthentication"

ParentLoop(buf, out_dep, k, node_hash) ==
    IF k > Len(out_dep) THEN "NotReady"
    ELSE IF ~IsSome(buf[index(out_dep[k])])
    THEN ParentLoop(buf, out_dep, k + 1, node_hash)
    ELSE LET parent == Unwrap(buf[index(out_dep[k])]) IN
         IF parent.id # out_dep[k] \/ parent.state # "Authenticated"
         THEN ParentLoop(buf, out_dep, k + 1, node_hash)
         ELSE CASE compare_hash(parent, node_hash) = "Ok" -> "Authenticated"
                [] compare_hash(parent, node_hash) = "NotAuthenticated" ->
                       ParentLoop(buf, out_dep, k + 1, node_hash)
                [] OTHER -> "BadAuthentication"

RECURSIVE authenticate_node(_, _)
RECURSIVE AuthChildren(_, _, _)

\* An authentication that does not go on to the predecessors.
AuthChildrenNone(buf, deps, k) == [res |-> "Ok", buffer |-> buf, bad |-> {}, calls |-> 0]

\* A children loop that goes on to the next predecessor after a failure and
\* returns the first failure at the end.
RECURSIVE AuthChildrenAll(_, _, _)
AuthChildrenAll(buf, deps, k) ==
    IF k > Len(deps) THEN [res |-> "Ok", buffer |-> buf, bad |-> {}, calls |-> 0]
    ELSE LET r    == authenticate_node(buf, deps[k])
             rest == AuthChildrenAll(r.buffer, deps, k + 1)
         IN  [res    |-> IF r.res # "Ok" THEN r.res ELSE rest.res,
              buffer |-> rest.buffer,
              bad    |-> r.bad \cup rest.bad,
              calls  |-> r.calls + rest.calls + 1]

\* for children in entry.dependencies.clone() { self.authenticate_node(children)?; }
AuthChildren(buf, deps, k) ==
    IF k > Len(deps) THEN [res |-> "Ok", buffer |-> buf, bad |-> {}, calls |-> 0]
    ELSE LET r == authenticate_node(buf, deps[k]) IN
         IF r.res # "Ok" THEN [r EXCEPT !.calls = @ + 1]
         ELSE LET rest == AuthChildren(r.buffer, deps, k + 1) IN
              [rest EXCEPT !.bad = @ \cup r.bad, !.calls = @ + r.calls + 1]

\* authenticate_node that goes through the predecessors of an Authenticated
\* entry again.
authenticate_node_redescending(buf, id) ==
    IF ~IsSome(buf[index(id)]) THEN [res |-> "Ok", buffer |-> buf, bad |-> {}, calls |-> 0]
    ELSE LET entry == Unwrap(buf[index(id)]) IN
         IF entry.id # id THEN [res |-> "Ok", buffer |-> buf, bad |-> {}, calls |-> 0]
         ELSE IF entry.state = "Authenticated"
         THEN AuthChildren(buf, entry.dependencies, 1)
         ELSE LET verdict ==
                      IF IsSome(entry.signature) THEN "Authenticated"
                      ELSE ParentLoop(buf, dependencies_out(entry.id), 1,
                                      compute_total_hash(entry))
              IN  IF verdict = "BadAuthentication"
                  THEN [res |-> "BadAuthentication", buffer |-> buf, bad |-> {id}, calls |-> 0]
                  ELSE LET st == IF verdict = "Authenticated"
                                 THEN "Authenticated" ELSE entry.state
                           b1 == [buf EXCEPT ![index(id)] =
                                     Some([entry EXCEPT !.state = st])]
                       IN  CASE st = "Authenticated" ->
                                    AuthChildren(b1, entry.dependencies, 1)
                             [] OTHER -> [res |-> "Ok", buffer |-> b1, bad |-> {}, calls |-> 0]

\* authenticate_node that does not return at once on an Authenticated entry.
authenticate_node_revisiting(buf, id) ==
    IF ~IsSome(buf[index(id)]) THEN [res |-> "Ok", buffer |-> buf, bad |-> {}, calls |-> 0]
    ELSE LET entry == Unwrap(buf[index(id)]) IN
         IF entry.id # id THEN [res |-> "Ok", buffer |-> buf, bad |-> {}, calls |-> 0]
         ELSE LET verdict ==
                      IF IsSome(entry.signature) THEN "Authenticated"
                      ELSE ParentLoop(buf, dependencies_out(entry.id), 1,
                                      compute_total_hash(entry))
              IN  IF verdict = "BadAuthentication"
                  THEN [res |-> "BadAuthentication", buffer |-> buf, bad |-> {id}, calls |-> 0]
                  ELSE LET st == IF verdict = "Authenticated"
                                 THEN "Authenticated" ELSE entry.state
                           b1 == [buf EXCEPT ![index(id)] =
                                     Some([entry EXCEPT !.state = st])]
                       IN  CASE st = "Authenticated" ->
                                    AuthChildren(b1, entry.dependencies, 1)
                             [] OTHER -> [res |-> "Ok", buffer |-> b1, bad |-> {}, calls |-> 0]

\* bad: the identifiers whose hash an authenticated parent refused in this call
\* calls: the number of recursive calls made below this one
authenticate_node(buf, id) ==
    IF ~IsSome(buf[index(id)]) THEN [res |-> "Ok", buffer |-> buf, bad |-> {}, calls |-> 0]
    ELSE LET entry == Unwrap(buf[index(id)]) IN
         IF entry.id # id THEN [res |-> "Ok", buffer |-> buf, bad |-> {}, calls |-> 0]
         ELSE IF entry.state = "Authenticated"
         THEN [res |-> "Ok", buffer |-> buf, bad |-> {}, calls |-> 0]
         ELSE LET verdict ==
                      IF IsSome(entry.signature) THEN "Authenticated"
                      ELSE ParentLoop(buf, dependencies_out(entry.id), 1,
                                      compute_total_hash(entry))
              IN  IF verdict = "BadAuthentication"
                  THEN [res |-> "BadAuthentication", buffer |-> buf, bad |-> {id}, calls |-> 0]
                  ELSE LET st == IF verdict = "Authenticated"
                                 THEN "Authenticated" ELSE entry.state
                           b1 == [buf EXCEPT ![index(id)] =
                                     Some([entry EXCEPT !.state = st])]
                       IN  CASE st = "Authenticated" ->
                                    AuthChildren(b1, entry.dependencies, 1)
                             [] st = "BadAuthentication" ->
                                    [res |-> "BadAuthentication", buffer |-> b1, bad |-> {}, calls |-> 0]
                             [] OTHER -> [res |-> "Ok", buffer |-> b1, bad |-> {}, calls |-> 0]

\* insert that keeps the state the entry was handed in with.
insert_keeping_state(buf, low, node) ==
    IF node.id < low \/ node.id >= low + BUFF_SIZE
    THEN [res |-> "OutOfBoundId", buffer |-> buf, bad |-> {}, calls |-> 0]
    ELSE IF Holds(buf, node.id)
    THEN [res |-> "Ok", buffer |-> buf, bad |-> {}, calls |-> 0]
    ELSE authenticate_node([buf EXCEPT ![index(index(node.id))] = Some(node)], node.id)

\* insert that stores the entry without looking for a held one.
insert_overwriting(buf, low, node) ==
    IF node.id < low \/ node.id >= low + BUFF_SIZE
    THEN [res |-> "OutOfBoundId", buffer |-> buf, bad |-> {}, calls |-> 0]
    ELSE authenticate_node(
             [buf EXCEPT ![index(index(node.id))] =
                 Some([node EXCEPT !.state = "NotReady"])],
             node.id)

\* insert without the test of the window.
insert_any_id(buf, low, node) ==
    IF Holds(buf, node.id)
    THEN [res |-> "Ok", buffer |-> buf, bad |-> {}, calls |-> 0]
    ELSE authenticate_node(
             [buf EXCEPT ![index(index(node.id))] =
                 Some([node EXCEPT !.state = "NotReady"])],
             node.id)

insert(buf, low, node) ==
    IF node.id < low \/ node.id >= low + BUFF_SIZE
    THEN [res |-> "OutOfBoundId", buffer |-> buf, bad |-> {}, calls |-> 0]
    ELSE IF Holds(buf, node.id)
    THEN [res |-> "Ok", buffer |-> buf, bad |-> {}, calls |-> 0]
    ELSE authenticate_node(
             [buf EXCEPT ![index(index(node.id))] =
                 Some([node EXCEPT !.state = "NotReady"])],
             node.id)

---------------------------------------------------------------------------
(* buffer/bytes.rs.  Here an entry holds its hashes, its signature and its   *)
(* payload as the bytes themselves.                                          *)

HASH_LEN == 32
SIGN_LEN == 64
TMP_LEN  == 8

Fill(b, n) == [i \in 1..n |-> b]
Reverse(seq) == [i \in 1..Len(seq) |-> seq[Len(seq) + 1 - i]]
Tail8(seq, upto) == SubSeq(seq, upto - TMP_LEN + 1, upto)

RECURSIVE Pow2(_)
Pow2(n) == IF n = 0 THEN 1 ELSE 2 * Pow2(n - 1)

RECURSIVE Concat(_)
Concat(seqs) == IF seqs = <<>> THEN <<>> ELSE Head(seqs) \o Concat(Tail(seqs))

\* integer_encoding::VarInt::encode_var: 7 bits a byte, the low ones first,
\* the top bit set on every byte but the last.
RECURSIVE encode_var(_)
encode_var(n) ==
    IF n < 128 THEN <<n>> ELSE <<128 + (n % 128)>> \o encode_var(n \div 128)

\* integer_encoding::VarInt::decode_var for u64: None when no byte of src
\* ends the number.  The values decoded here stay below 2^31.
RECURSIVE DecodeVarLoop(_, _, _, _)
DecodeVarLoop(src, i, result, shift) ==
    IF i > Len(src) THEN [ok |-> FALSE, value |-> 0, len |-> 0]
    ELSE LET r  == result + (src[i] % 128) * Pow2(shift)
             sh == shift + 7
         IN  IF src[i] < 128 \/ sh > 9 * 7
             THEN [ok |-> src[i] < 128, value |-> r, len |-> sh \div 7]
             ELSE DecodeVarLoop(src, i + 1, r, sh)

decode_var(src) == DecodeVarLoop(src, 1, 0, 0)

\* encode_var into tmp = [0u8; 8], tmp.reverse(), &tmp[tmp.len() - len..]
ReversedVarInt(n) == Reverse(encode_var(n))

\* What encode appends to buf; "Panic" when a VarInt does not fit tmp.
encode(entry, buf) ==
    LET hashes    == Concat(entry.hashes)
        signature == IF IsSome(entry.signature) THEN Unwrap(entry.signature) ELSE <<>>
        bytes_len == Len(hashes) + Len(signature)
    IN  IF Len(encode_var(bytes_len)) > TMP_LEN \/ Len(encode_var(entry.id)) > TMP_LEN
        THEN [res |-> "Panic", buf |-> buf]
        ELSE [res |-> "Ok",
              buf |-> buf \o hashes \o signature
                          \o ReversedVarInt(bytes_len) \o ReversedVarInt(entry.id)]

\* The loop that reads nb hashes of 32 bytes off the front of alta.
RECURSIVE ReadHashes(_, _, _)
ReadHashes(alta, nb, acc) ==
    IF nb = 0 THEN [ok |-> TRUE, hashes |-> acc, rest |-> alta]
    ELSE IF Len(alta) < HASH_LEN THEN [ok |-> FALSE, hashes |-> acc, rest |-> alta]
    ELSE ReadHashes(SubSeq(alta, HASH_LEN + 1, Len(alta)), nb - 1,
                    Append(acc, SubSeq(alta, 1, HASH_LEN)))

\* decode: "Panic" where a slice index or a subtraction of lengths goes below
\* zero, "Decoding" where the source returns Error::Decoding.
decode(buf) ==
    IF Len(buf) < TMP_LEN THEN [res |-> "Panic"]
    ELSE LET d_id == decode_var(Reverse(Tail8(buf, Len(buf)))) IN
    IF ~d_id.ok THEN [res |-> "Decoding"]
    ELSE IF Len(buf) - d_id.len - TMP_LEN < 0 THEN [res |-> "Panic"]
    ELSE LET d_len == decode_var(Reverse(Tail8(buf, Len(buf) - d_id.len))) IN
    IF ~d_len.ok THEN [res |-> "Decoding"]
    ELSE LET split_idx == Len(buf) - d_id.len - d_len.len - d_len.value IN
    IF split_idx < 0 THEN [res |-> "Panic"]
    ELSE LET alta == SubSeq(buf, split_idx + 1, Len(buf) - d_id.len - d_len.len)
             h    == ReadHashes(alta, Len(dependencies_in(d_id.value)), <<>>)
         IN
    IF ~h.ok THEN [res |-> "Decoding"]
    ELSE IF h.rest # <<>> /\ Len(h.rest) < SIGN_LEN THEN [res |-> "Decoding"]
    ELSE [res   |-> "Ok",
          entry |-> [id           |-> d_id.value,
                     hashes       |-> h.hashes,
                     signature    |-> IF h.rest # <<>>
                                      THEN Some(SubSeq(h.rest, 1, SIGN_LEN))
                                      ELSE None,
                     payload      |-> Some(SubSeq(buf, 1, split_idx)),
                     dependencies |-> dependencies_in(d_id.value),
                     state        |-> "NotReady"]]

---------------------------------------------------------------------------
(* The callers.  A send buffer is driven by insert_in_sequence, forwards_hash *)
(* and pop_ready_in_sequence called in any order with any identifier of a     *)
(* small range; a receive buffer by insert, authenticate_node and             *)
(* pop_ready_in_sequence; a cursor-driven send buffer by a producer that      *)
(* inserts in sequence and a forwarder that follows next_node_id_hash.        *)

MaxSendId == 9
MaxRecvId == 2
MaxCurId  == 33

\* The identifiers a caller passes: the small range, and the first one past
\* the window.
SendArgs(low) == (0..MaxSendId) \cup {low + BUFF_SIZE}
RecvArgs(low) == (0..MaxRecvId) \cup {low + BUFF_SIZE}

\* The signatures a received entry may carry are [1; 64], the one the sender
\* of test_recv_buffer writes, and, on entry 0, [0; 64], which no sender wrote.
\* verify is
\* the external signature verifier: it accepts the sender's signature only.
verify(signature) == signature = Some(1)

\* The hash lists a received entry may carry: the total hashes of its
\* predecessors (what a send buffer produces), a list that holds none of
\* them, and, on entry 1, a list whose first hash alone is wrong.
HonestHashes(id) == [i \in 1..Len(dependencies_in(id)) |-> 0]
ForgedHashes(id) == [i \in 1..Len(dependencies_in(id)) |-> 1]
MixedHashes(id)  == [i \in 1..Len(dependencies_in(id)) |-> IF i = 1 THEN 1 ELSE 0]

\* The entries a caller hands to insert: NotReady ones with any of these
\* hashes and signatures, and one the caller already marked Authenticated.
RecvEntries(id) ==
    { [id           |-> id,
       hashes       |-> h,
       signature    |-> s,
       payload      |-> Some(42),
       dependencies |-> dependencies_in(id),
       state        |-> "NotReady"] :
      h \in {HonestHashes(id), ForgedHashes(id)} \cup (IF id = 1 THEN {MixedHashes(id)} ELSE {}),
      s \in {None, Some(1)} \cup (IF id = 0 THEN {Some(0)} ELSE {}) }
    \cup { [new(id, 42) EXCEPT !.hashes = HonestHashes(id), !.state = "Authenticated"] }

\* Buffer::new(is_send)
InitBuffer(is_send) ==
    /\ buffer = EmptyBuffer
    /\ lowest_id = 0
    /\ latest_id = 0
    /\ next_node_id_hash = 3
    /\ state_to_pop = IF is_send THEN "ReadySent" ELSE "Authenticated"
    /\ origin = <<>>
    /\ calls = 0

\* A run that does not look at the graph leaves its state alone.
InitGraphIdle ==
    /\ gi = 0
    /\ gj = 0
    /\ gout = <<>>
    /\ gin = <<>>
    /\ gcur = 0
    /\ gmoved = FALSE

\* A run that is neither the round trip nor the codec leaves their state alone.
InitIdle ==
    /\ InitGraphIdle
    /\ pc = "idle"
    /\ nodes = <<>>
    /\ next_id = 0
    /\ sweep_i = 0
    /\ fed = 0
    /\ extraSigned = FALSE
    /\ centry = new_id(0)
    /\ cpayload = <<>>
    /\ cbytes = <<>>
    /\ cdecoded = [res |-> "None"]

Init ==
    /\ mode \in {"send", "recv", "cursor"}
    /\ InitBuffer(mode # "recv")
    /\ lastOp = "new"
    /\ lastId = 0
    /\ lastRes = "Ok"
    /\ out = <<>>
    /\ popped = <<>>
    /\ everInserted = FALSE
    /\ rejected = {}
    /\ visited = <<>>
    /\ lazy = FALSE
    /\ InitIdle

Ids(entries) == [i \in 1..Len(entries) |-> entries[i].id]

SendInsertInSequence ==
    /\ mode = "send"
    /\ \E id \in SendArgs(lowest_id) :
          LET r == insert_in_sequence(buffer, lowest_id, latest_id, dummy(id)) IN
          /\ buffer' = r.buffer
          /\ latest_id' = r.latest_id
          /\ everInserted' = (everInserted \/ r.res = "Ok")
          /\ lastOp' = "insert_in_sequence"
          /\ lastId' = id
          /\ lastRes' = r.res
    /\ out' = <<>>
    /\ UNCHANGED <<mode, lowest_id, next_node_id_hash, state_to_pop, popped, rejected,
                   curVars, rtVars, codecVars, graphVars, origin, calls>>

SendForwardsHash ==
    /\ mode = "send"
    /\ \E id \in SendArgs(lowest_id) :
          LET r == forwards_hash(buffer, lowest_id, id) IN
          /\ buffer' = r.buffer
          /\ origin' = OriginAfter(origin, buffer, r.buffer, id)
          /\ calls' = calls
          /\ lastOp' = "forwards_hash"
          /\ lastId' = id
          /\ lastRes' = r.res
    /\ out' = <<>>
    /\ UNCHANGED <<mode, lowest_id, latest_id, next_node_id_hash, state_to_pop,
                   popped, everInserted, rejected, curVars, rtVars, codecVars, graphVars>>

PopReadyInSequence ==
    /\ mode \in {"send", "recv", "cursor"}
    /\ LET r == pop_ready_in_sequence(buffer, lowest_id, state_to_pop) IN
          /\ buffer' = r.buffer
          /\ lowest_id' = r.lowest_id
          /\ out' = r.out
          /\ popped' = popped \o Ids(r.out)
    /\ lastOp' = "pop_ready_in_sequence"
    /\ lastId' = lowest_id
    /\ lastRes' = "Ok"
    /\ UNCHANGED <<mode, latest_id, next_node_id_hash, state_to_pop, everInserted,
                   rejected, curVars, rtVars, codecVars, graphVars, origin, calls>>

RecvInsert ==
    /\ mode = "recv"
    /\ \E id \in RecvArgs(lowest_id) : \E node \in RecvEntries(id) :
          LET r == insert(buffer, lowest_id, node) IN
          /\ buffer' = r.buffer
          /\ calls' = r.calls
          /\ rejected' = rejected \cup r.bad
          /\ lastOp' = "insert"
          /\ lastId' = id
          /\ lastRes' = r.res
    /\ out' = <<>>
    /\ UNCHANGED <<mode, lowest_id, latest_id, next_node_id_hash, state_to_pop,
                   popped, everInserted, curVars, rtVars, codecVars, graphVars, origin>>

RecvAuthenticateNode ==
    /\ mode = "recv"
    /\ \E id \in RecvArgs(lowest_id) :
          LET r == authenticate_node(buffer, id) IN
          /\ buffer' = r.buffer
          /\ calls' = r.calls
          /\ rejected' = rejected \cup r.bad
          /\ lastOp' = "authenticate_node"
          /\ lastId' = id
          /\ lastRes' = r.res
    /\ out' = <<>>
    /\ UNCHANGED <<mode, lowest_id, latest_id, next_node_id_hash, state_to_pop,
                   popped, everInserted, curVars, rtVars, codecVars, graphVars, origin>>

\* The producer of a cursor-driven send buffer: the next identifier in
\* sequence, whether or not the window has room for it.
CursorInsert ==
    /\ mode = "cursor"
    /\ latest_id < MaxCurId
    /\ LET id == IF everInserted THEN latest_id + 1 ELSE 0
           r  == insert_in_sequence(buffer, lowest_id, latest_id, dummy(id)) IN
          /\ buffer' = r.buffer
          /\ latest_id' = r.latest_id
          /\ everInserted' = (everInserted \/ r.res = "Ok")
          /\ lastOp' = "insert_in_sequence"
          /\ lastId' = id
          /\ lastRes' = r.res
    /\ out' = <<>>
    /\ UNCHANGED <<mode, lowest_id, next_node_id_hash, state_to_pop, popped, rejected,
                   curVars, rtVars, codecVars, graphVars, origin, calls>>

\* let id = sb.next_node_id_hash(); sb.forwards_hash(id), once the producer
\* has inserted the identifier the cursor stands on.
CursorForward ==
    /\ mode = "cursor"
    /\ everInserted
    /\ next_node_id_hash <= latest_id
    /\ LET id == next_node_id_hash
           r  == forwards_hash(buffer, lowest_id, id) IN
          /\ origin' = OriginAfter(origin, buffer, r.buffer, id)
          /\ calls' = calls
          /\ next_node_id_hash' = NextCursor(id)
          /\ visited' = Append(visited, id)
          /\ lazy' = (lazy \/ PopQualifies(buffer, lowest_id, state_to_pop))
          /\ buffer' = r.buffer
          /\ lastOp' = "forwards_hash"
          /\ lastId' = id
          /\ lastRes' = r.res
    /\ out' = <<>>
    /\ UNCHANGED <<mode, lowest_id, latest_id, state_to_pop, popped, everInserted,
                   rejected, rtVars, codecVars, graphVars>>

Next ==
    \/ SendInsertInSequence
    \/ SendForwardsHash
    \/ PopReadyInSequence
    \/ RecvInsert
    \/ RecvAuthenticateNode
    \/ CursorInsert
    \/ CursorForward

Spec == Init /\ [][Next]_vars

---------------------------------------------------------------------------
(* The round trip of test_recv_buffer: a send buffer is driven by push_pkts,  *)
(* forw_hash and pop_ready_in_sequence until it has produced TestNodes        *)
(* entries; the entries at positions 5, 10, ..., 55 and the last one are      *)
(* signed; all are then given in order to a receive buffer, which is popped   *)
(* after each insert, with or without the sweep of authenticate_node calls    *)
(* the test makes in between.  Any other entry may carry a signature too.     *)

TestNodes == 60

\* nodes[5 * i].signature = Some([1; 64]) for i in 1..12, and the last node
TestSigned(k, n) == (k % 5 = 0 /\ k >= 5 /\ k < 5 * 12) \/ k = n - 1

InitRoundTrip ==
    /\ mode = "produce"
    /\ InitGraphIdle
    /\ InitBuffer(TRUE)
    /\ lastOp = "new"
    /\ lastId = 0
    /\ lastRes = "Ok"
    /\ out = <<>>
    /\ popped = <<>>
    /\ everInserted = FALSE
    /\ rejected = {}
    /\ visited = <<>>
    /\ lazy = FALSE
    /\ pc = "push"
    /\ nodes = <<>>
    /\ next_id = 0
    /\ sweep_i = 0
    /\ fed = 0
    /\ extraSigned = FALSE
    /\ centry = new_id(0)
    /\ cpayload = <<>>
    /\ cbytes = <<>>
    /\ cdecoded = [res |-> "None"]

\* One turn of the loop of push_pkts.
RtPush ==
    /\ mode = "produce" /\ pc = "push"
    /\ LET r == insert_in_sequence(buffer, lowest_id, latest_id, dummy(next_id)) IN
          /\ buffer' = r.buffer
          /\ latest_id' = r.latest_id
          /\ everInserted' = (everInserted \/ r.res = "Ok")
          /\ lastOp' = "insert_in_sequence"
          /\ lastId' = next_id
          /\ lastRes' = r.res
          /\ next_id' = IF r.res = "Ok" THEN next_id + 1 ELSE next_id
          /\ pc' = IF r.res = "Ok" THEN "push" ELSE "forw"
    /\ sweep_i' = 0
    /\ out' = <<>>
    /\ UNCHANGED <<mode, lowest_id, next_node_id_hash, state_to_pop, popped, rejected,
                   curVars, nodes, fed, extraSigned, codecVars, graphVars, origin, calls>>

\* One turn of the loop of forw_hash.
RtForward ==
    /\ mode = "produce" /\ pc = "forw"
    /\ LET r == forwards_hash(buffer, lowest_id, lowest_id + sweep_i) IN
          /\ buffer' = r.buffer
          /\ lastOp' = "forwards_hash"
          /\ lastId' = lowest_id + sweep_i
          /\ lastRes' = r.res
    /\ sweep_i' = sweep_i + 1
    /\ pc' = IF sweep_i + 1 = BUFF_SIZE THEN "pop" ELSE "forw"
    /\ out' = <<>>
    /\ UNCHANGED <<mode, lowest_id, latest_id, next_node_id_hash, state_to_pop, popped,
                   everInserted, rejected, curVars, nodes, next_id, fed, extraSigned,
                   codecVars, graphVars, origin, calls>>

\* nodes.extend(sb.pop_ready_in_sequence()), and the test of the while loop
RtPop ==
    /\ mode = "produce" /\ pc = "pop"
    /\ LET r == pop_ready_in_sequence(buffer, lowest_id, state_to_pop) IN
          /\ buffer' = r.buffer
          /\ lowest_id' = r.lowest_id
          /\ out' = r.out
          /\ popped' = popped \o Ids(r.out)
          /\ nodes' = nodes \o r.out
          /\ pc' = IF Len(nodes \o r.out) < TestNodes THEN "push" ELSE "sign"
    /\ lastOp' = "pop_ready_in_sequence"
    /\ lastId' = lowest_id
    /\ lastRes' = "Ok"
    /\ UNCHANGED <<mode, latest_id, next_node_id_hash, state_to_pop, everInserted,
                   rejected, curVars, next_id, sweep_i, fed, extraSigned, codecVars, graphVars, origin, calls>>

\* The signatures, and let mut rb = Buffer::new(false).
RtSign ==
    /\ mode = "produce" /\ pc = "sign"
    /\ mode' = "deliver"
    /\ nodes' = [k \in 1..Len(nodes) |->
                    IF TestSigned(k - 1, Len(nodes))
                    THEN [nodes[k] EXCEPT !.signature = Some(1)]
                    ELSE nodes[k]]
    /\ buffer' = EmptyBuffer
    /\ lowest_id' = 0
    /\ latest_id' = 0
    /\ next_node_id_hash' = 3
    /\ state_to_pop' = "Authenticated"
    /\ lastOp' = "new"
    /\ lastId' = 0
    /\ lastRes' = "Ok"
    /\ out' = <<>>
    /\ popped' = <<>>
    /\ pc' = "feed"
    /\ sweep_i' = 0
    /\ UNCHANGED <<everInserted, rejected, curVars, next_id, fed, extraSigned,
                   codecVars, graphVars, origin, calls>>

\* rb.insert(node), of the next node as the test signed it or with a
\* signature of its own.
RtFeed ==
    /\ mode = "deliver" /\ pc = "feed"
    /\ \E extra \in BOOLEAN :
          LET node == IF extra THEN [nodes[fed + 1] EXCEPT !.signature = Some(1)]
                      ELSE nodes[fed + 1]
              r    == insert(buffer, lowest_id, node) IN
          /\ buffer' = r.buffer
          /\ calls' = r.calls
          /\ rejected' = rejected \cup r.bad
          /\ extraSigned' = (extraSigned \/ node # nodes[fed + 1])
          /\ lastOp' = "insert"
          /\ lastId' = node.id
          /\ lastRes' = r.res
    /\ fed' = fed + 1
    /\ pc' = "auth"
    /\ out' = <<>>
    /\ UNCHANGED <<mode, lowest_id, latest_id, next_node_id_hash, state_to_pop, popped,
                   everInserted, curVars, nodes, next_id, sweep_i, codecVars, graphVars, origin>>

\* One turn of the loop
\* for i in 0..BUFF_SIZE { let _ = rb.authenticate_node(i as u64 + rb.lowest_id); }
RtAuthenticate ==
    /\ mode = "deliver" /\ pc = "auth"
    /\ LET r == authenticate_node(buffer, sweep_i + lowest_id) IN
          /\ buffer' = r.buffer
          /\ calls' = r.calls
          /\ rejected' = rejected \cup r.bad
    /\ sweep_i' = (sweep_i + 1) % BUFF_SIZE
    /\ pc' = IF sweep_i + 1 = BUFF_SIZE THEN "rpop" ELSE "auth"
    /\ UNCHANGED <<mode, lowest_id, latest_id, next_node_id_hash, state_to_pop,
                   lastOp, lastId, lastRes, out, popped, everInserted,
                   curVars, nodes, next_id, fed, extraSigned, codecVars, graphVars, origin>>

\* A receiver that pops right after the insert.
RtNoSweep ==
    /\ mode = "deliver" /\ pc = "auth" /\ sweep_i = 0
    /\ pc' = "rpop"
    /\ UNCHANGED <<bufVars, lastOp, lastId, lastRes, out, popped, everInserted,
                   rejected, curVars, mode, nodes, next_id, sweep_i, fed, extraSigned,
                   codecVars, graphVars, origin, calls>>

\* authenticated_nodes.extend(rb.pop_ready_in_sequence())
RtRecvPop ==
    /\ mode = "deliver" /\ pc = "rpop"
    /\ LET r == pop_ready_in_sequence(buffer, lowest_id, state_to_pop) IN
          /\ buffer' = r.buffer
          /\ lowest_id' = r.lowest_id
          /\ out' = r.out
          /\ popped' = popped \o Ids(r.out)
    /\ lastOp' = "pop_ready_in_sequence"
    /\ lastId' = lowest_id
    /\ lastRes' = "Ok"
    /\ pc' = IF fed < Len(nodes) THEN "feed" ELSE "done"
    /\ UNCHANGED <<mode, latest_id, next_node_id_hash, state_to_pop, everInserted,
                   rejected, curVars, nodes, next_id, sweep_i, fed, extraSigned,
                   codecVars, graphVars, origin, calls>>

NextRoundTrip ==
    \/ RtPush
    \/ RtForward
    \/ RtPop
    \/ RtSign
    \/ RtFeed
    \/ RtAuthenticate
    \/ RtNoSweep
    \/ RtRecvPop

SpecRoundTrip == InitRoundTrip /\ [][NextRoundTrip]_vars

\* The loop that drives the send buffer, by itself: push_pkts, forw_hash,
\* pop_ready_in_sequence, until TestNodes entries were popped.  The test is
\* one thread: whenever it has a next step, it takes it.
NextDrive ==
    \/ RtPush
    \/ RtForward
    \/ RtPop

SpecDrive == InitRoundTrip /\ [][NextDrive]_vars /\ WF_vars(NextDrive)

---------------------------------------------------------------------------
(* The codec run of test_bytes: an entry with one hash per predecessor, the  *)
(* hash of predecessor i filled with the byte i, with or without the         *)
(* signature [77; 64], is encoded after a payload and decoded again.         *)

MaxCodecId == 16

CodecIds == (0..MaxCodecId) \cup {56, 127, 128, 300, 16384}
PayloadLens == {0, 1, 6, 7, 8, 20, 56}

\* The payload of n bytes of the entry id; its bytes differ from one another.
PayloadOf(id, n) == [i \in 1..n |-> (2 * id + i) % 256]

ValidEntry(id, signed) ==
    [id           |-> id,
     hashes       |-> [k \in 1..Len(dependencies_in(id)) |->
                          Fill(dependencies_in(id)[k] % 256, HASH_LEN)],
     signature    |-> IF signed THEN Some(Fill(77, SIGN_LEN)) ELSE None,
     payload      |-> None,
     dependencies |-> dependencies_in(id),
     state        |-> "NotReady"]

InitCodec ==
    /\ mode = "codec"
    /\ InitGraphIdle
    /\ InitBuffer(TRUE)
    /\ lastOp = "new"
    /\ lastId = 0
    /\ lastRes = "Ok"
    /\ out = <<>>
    /\ popped = <<>>
    /\ everInserted = FALSE
    /\ rejected = {}
    /\ visited = <<>>
    /\ lazy = FALSE
    /\ nodes = <<>>
    /\ next_id = 0
    /\ sweep_i = 0
    /\ fed = 0
    /\ extraSigned = FALSE
    /\ pc = "input"
    /\ \E id \in CodecIds : \E signed \in BOOLEAN : centry = ValidEntry(id, signed)
    /\ \E n \in PayloadLens : cpayload = PayloadOf(centry.id, n)
    /\ cbytes = cpayload
    /\ cdecoded = [res |-> "None"]

\* entry.encode(&mut buf)
CodecEncode ==
    /\ mode = "codec" /\ pc = "input"
    /\ LET r == encode(centry, cbytes) IN
          /\ cbytes' = r.buf
          /\ lastRes' = r.res
    /\ lastOp' = "encode"
    /\ pc' = "encoded"
    /\ UNCHANGED <<mode, bufVars, lastId, out, popped, everInserted, rejected, curVars,
                   nodes, next_id, sweep_i, fed, extraSigned, centry, cpayload, cdecoded,
                   graphVars, origin, calls>>

\* BufferEntry::decode(buf.freeze())
CodecDecode ==
    /\ mode = "codec" /\ pc = "encoded"
    /\ cdecoded' = decode(cbytes)
    /\ lastRes' = decode(cbytes).res
    /\ lastOp' = "decode"
    /\ pc' = "decoded"
    /\ UNCHANGED <<mode, bufVars, lastId, out, popped, everInserted, rejected, curVars,
                   nodes, next_id, sweep_i, fed, extraSigned, centry, cpayload, cbytes,
                   graphVars, origin, calls>>

NextCodec ==
    \/ CodecEncode
    \/ CodecDecode

SpecCodec == InitCodec /\ [][NextCodec]_vars

---------------------------------------------------------------------------
(* decode on what a wire may deliver: every short sequence of a few byte     *)
(* values, buffers whose last 8 bytes never end a VarInt, and frames of a    *)
(* payload followed by a declared length and an identifier with no hashes    *)
(* and no signature written in between.                                      *)

MaxWireLen == 3

WireBytes == {0, 3, 128, 255}
ShortInputs == UNION { [1..k -> WireBytes] : k \in 0..MaxWireLen }
Frame(n, len, id) == Fill(65, n) \o ReversedVarInt(len) \o ReversedVarInt(id)
Frames ==
    { Frame(n, len, id) : n \in {0, 6, 7, 40, 100, 200},
                          len \in {0, 32, 64, 65, 96, 128, 300},
                          id \in {0, 1, 3, 5} }
WireInputs == ShortInputs \cup Frames \cup {Fill(255, 8), Fill(255, 16)}

InitWire ==
    /\ mode = "wire"
    /\ InitGraphIdle
    /\ InitBuffer(TRUE)
    /\ lastOp = "new"
    /\ lastId = 0
    /\ lastRes = "Ok"
    /\ out = <<>>
    /\ popped = <<>>
    /\ everInserted = FALSE
    /\ rejected = {}
    /\ visited = <<>>
    /\ lazy = FALSE
    /\ nodes = <<>>
    /\ next_id = 0
    /\ sweep_i = 0
    /\ fed = 0
    /\ extraSigned = FALSE
    /\ pc = "encoded"
    /\ centry = new_id(0)
    /\ cpayload = <<>>
    /\ cbytes \in WireInputs
    /\ cdecoded = [res |-> "None"]

\* BufferEntry::decode(buf)
WireDecode ==
    /\ mode = "wire" /\ pc = "encoded"
    /\ cdecoded' = decode(cbytes)
    /\ lastRes' = decode(cbytes).res
    /\ lastOp' = "decode"
    /\ pc' = "decoded"
    /\ UNCHANGED <<mode, bufVars, lastId, out, popped, everInserted, rejected, curVars,
                   nodes, next_id, sweep_i, fed, extraSigned, centry, cpayload, cbytes,
                   graphVars, origin, calls>>

NextWire == WireDecode

SpecWire == InitWire /\ [][NextWire]_vars

---------------------------------------------------------------------------
(* The graph: dependencies_out of one identifier and dependencies_in of      *)
(* another are taken, then the edges of dependencies_out are followed from   *)
(* the first identifier on.                                                  *)

MaxGraphId == 25
\* The farthest a predecessor lies from its successor: a * p.
MaxOffset == ALTA_A * ALTA_P

InitGraph ==
    /\ mode = "graph"
    /\ InitBuffer(TRUE)
    /\ lastOp = "new"
    /\ lastId = 0
    /\ lastRes = "Ok"
    /\ out = <<>>
    /\ popped = <<>>
    /\ everInserted = FALSE
    /\ rejected = {}
    /\ visited = <<>>
    /\ lazy = FALSE
    /\ pc = "input"
    /\ nodes = <<>>
    /\ next_id = 0
    /\ sweep_i = 0
    /\ fed = 0
    /\ extraSigned = FALSE
    /\ centry = new_id(0)
    /\ cpayload = <<>>
    /\ cbytes = <<>>
    /\ cdecoded = [res |-> "None"]
    /\ gi \in 0..MaxGraphId
    /\ gj \in 0..(MaxGraphId + MaxOffset)
    /\ gout = <<>>
    /\ gin = <<>>
    /\ gcur = gi
    /\ gmoved = FALSE

\* BufferEntry::new_id(gi).dependencies_out() and BufferEntry::dependencies_in(gj)
GraphDependencies ==
    /\ mode = "graph" /\ pc = "input"
    /\ gout' = dependencies_out(new_id(gi).id)
    /\ gin' = dependencies_in(gj)
    /\ pc' = "walk"
    /\ UNCHANGED <<mode, bufVars, lastOp, lastId, lastRes, out, popped, everInserted,
                   rejected, curVars, nodes, next_id, sweep_i, fed, extraSigned,
                   codecVars, gi, gj, gcur, gmoved, origin, calls>>

\* One edge further: an identifier of dependencies_out of the current one.
GraphFollow ==
    /\ mode = "graph" /\ pc = "walk"
    /\ \E k \in 1..Len(dependencies_out(gcur)) :
          /\ dependencies_out(gcur)[k] <= MaxGraphId
          /\ gcur' = dependencies_out(gcur)[k]
    /\ gmoved' = TRUE
    /\ UNCHANGED <<mode, bufVars, lastOp, lastId, lastRes, out, popped, everInserted,
                   rejected, curVars, rtVars, codecVars, gi, gj, gout, gin, origin, calls>>

NextGraph ==
    \/ GraphDependencies
    \/ GraphFollow

SpecGraph == InitGraph /\ [][NextGraph]_vars

---------------------------------------------------------------------------
(* A receiver that is handed a set of honest entries in any order, each
   once, and never pops (recv_buf.rs insert). *)

MaxOrderId == 4

\* The entries a send buffer produces for id, without and with a signature.
HonestEntries(id) ==
    { [new(id, 42) EXCEPT !.hashes = HonestHashes(id), !.signature = s] :
         s \in {None, Some(1)} }

InitOrder ==
    /\ mode = "order"
    /\ InitBuffer(FALSE)
    /\ lastOp = "new"
    /\ lastId = 0
    /\ lastRes = "Ok"
    /\ out = <<>>
    /\ popped = <<>>
    /\ everInserted = FALSE
    /\ rejected = {}
    /\ visited = <<>>
    /\ lazy = FALSE
    /\ InitIdle

\* nodes: the entries handed to insert so far, in the order of the calls
OrderInsert ==
    /\ mode = "order"
    /\ \E id \in 0..MaxOrderId :
          /\ \A i \in 1..Len(nodes) : nodes[i].id # id
          /\ \E node \in HonestEntries(id) :
                LET r == insert(buffer, lowest_id, node) IN
                /\ buffer' = r.buffer
                /\ calls' = r.calls
                /\ rejected' = rejected \cup r.bad
                /\ lastOp' = "insert"
                /\ lastId' = id
                /\ lastRes' = r.res
                /\ nodes' = Append(nodes, node)
    /\ out' = <<>>
    /\ UNCHANGED <<mode, lowest_id, latest_id, next_node_id_hash, state_to_pop,
                   popped, everInserted, curVars, pc, next_id, sweep_i, fed,
                   extraSigned, codecVars, graphVars, origin>>

NextOrder == OrderInsert

SpecOrder == InitOrder /\ [][NextOrder]_vars

---------------------------------------------------------------------------
(* A receiver that is handed entries whose hashes may not be those of their
   predecessors, and that calls authenticate_node on any identifier
   (recv_buf.rs insert, authenticate_node). *)

MaxRefuseId == 4

\* The entries a send buffer produces, without and with a signature, and a
\* signed entry whose hashes match no predecessor.
RefuseEntries(id) ==
    HonestEntries(id)
       \cup { [new(id, 42) EXCEPT !.hashes = ForgedHashes(id), !.signature = Some(1)] }

InitRefuse ==
    /\ mode = "refuse"
    /\ InitBuffer(FALSE)
    /\ lastOp = "new"
    /\ lastId = 0
    /\ lastRes = "Ok"
    /\ out = <<>>
    /\ popped = <<>>
    /\ everInserted = FALSE
    /\ rejected = {}
    /\ visited = <<>>
    /\ lazy = FALSE
    /\ InitIdle

RefuseInsert ==
    /\ mode = "refuse"
    /\ \E id \in 0..MaxRefuseId : \E node \in RefuseEntries(id) :
          LET r == insert(buffer, lowest_id, node) IN
          /\ buffer' = r.buffer
          /\ calls' = r.calls
          /\ rejected' = rejected \cup r.bad
          /\ lastOp' = "insert"
          /\ lastId' = id
          /\ lastRes' = r.res
    /\ out' = <<>>
    /\ UNCHANGED <<mode, lowest_id, latest_id, next_node_id_hash, state_to_pop,
                   popped, everInserted, curVars, rtVars, codecVars, graphVars, origin>>

RefuseAuthenticate ==
    /\ mode = "refuse"
    /\ \E id \in 0..MaxRefuseId :
          LET r == authenticate_node(buffer, id) IN
          /\ buffer' = r.buffer
          /\ calls' = r.calls
          /\ rejected' = rejected \cup r.bad
          /\ lastOp' = "authenticate_node"
          /\ lastId' = id
          /\ lastRes' = r.res
    /\ out' = <<>>
    /\ UNCHANGED <<mode, lowest_id, latest_id, next_node_id_hash, state_to_pop,
                   popped, everInserted, curVars, rtVars, codecVars, graphVars, origin>>

NextRefuse ==
    \/ RefuseInsert
    \/ RefuseAuthenticate

SpecRefuse == InitRefuse /\ [][NextRefuse]_vars

---------------------------------------------------------------------------
(* Properties *)

Slots == 0..(BUFF_SIZE - 1)
Held(buf) == {Unwrap(buf[i]) : i \in {j \in Slots : IsSome(buf[j])}}
Entry(buf, id) == Unwrap(buf[index(id)])
IsSend == mode \in {"send", "cursor"}
SeqSet(seq) == {seq[i] : i \in 1..Len(seq)}

\* C1: on a send and on a receive buffer, everything popped so far is the
\* identifiers 0, 1, 2, ... in increasing order without gap or repeat, and
\* lowest_id is the number of entries popped.
C1_PopOrder ==
    /\ Len(popped) = lowest_id
    /\ \A i \in 1..Len(popped) : popped[i] = i - 1
    /\ \A i \in 1..Len(out) : out[i].id = lowest_id - Len(out) + i - 1

C1_Witness ==
    /\ mode = "recv"
    /\ lastOp = "pop_ready_in_sequence"
    /\ Len(out) >= 2
    /\ lowest_id >= 3

\* A predecessor has forwarded its hash: it is ReadySent in the buffer, or it
\* has been popped.
PredReady(buf, low, p) ==
    \/ p < low
    \/ Holds(buf, p) /\ Entry(buf, p).state = "ReadySent"

AllPredsReady(buf, low, id) ==
    \A k \in 1..Len(dependencies_in(id)) : PredReady(buf, low, dependencies_in(id)[k])

\* C2: forwards_hash on a NotReady entry succeeds only if every predecessor
\* has forwarded, and fails with MissingHash if one has not; so an entry that
\* is ReadySent has all its predecessors ReadySent or popped.
C2_ReadyAfterPreds ==
    IsSend => \A e \in Held(buffer) :
                 e.state = "ReadySent" => AllPredsReady(buffer, lowest_id, e.id)

C2_ForwardStep ==
    (/\ IsSend
     /\ lastOp' = "forwards_hash"
     /\ Holds(buffer, lastId')
     /\ Entry(buffer, lastId').state = "NotReady")
    => /\ lastRes' = "Ok" => AllPredsReady(buffer, lowest_id, lastId')
       /\ ~AllPredsReady(buffer, lowest_id, lastId') => lastRes' = "MissingHash"
       /\ lastRes' = "Ok" => Entry(buffer', lastId').state = "ReadySent"

C2_ForwardAfterPredecessors == [] C2_ReadyAfterPreds /\ [][C2_ForwardStep]_vars

C2_Witness ==
    /\ mode = "send"
    /\ lastOp = "forwards_hash"
    /\ lastId = 1
    /\ lastRes = "Ok"
    /\ Holds(buffer, 1) /\ Entry(buffer, 1).state = "ReadySent"
    /\ Holds(buffer, 2) /\ Entry(buffer, 2).state = "ReadySent"
    /\ Holds(buffer, 4) /\ Entry(buffer, 4).state = "ReadySent"

\* C3: an entry of a send buffer that is ReadySent, and every entry a send
\* buffer pops, holds as many hashes as its identifier has predecessors.
C3_HashesComplete ==
    IsSend =>
       /\ \A e \in Held(buffer) :
             e.state = "ReadySent" => Len(e.hashes) = Len(dependencies_in(e.id))
       /\ \A i \in 1..Len(out) :
             /\ Len(out[i].hashes) = Len(dependencies_in(out[i].id))
             /\ out[i].dependencies = dependencies_in(out[i].id)

C3_Witness ==
    /\ mode = "send"
    /\ lastOp = "pop_ready_in_sequence"
    /\ \E i \in 1..Len(out) : out[i].id = 5 /\ Len(out[i].hashes) = 4

\* An authenticated successor held in the buffer holds the entry's total hash.
Vouched(buf, id) ==
    \E k \in 1..Len(dependencies_out(id)) :
       LET s == dependencies_out(id)[k] IN
       /\ Holds(buf, s)
       /\ Entry(buf, s).state = "Authenticated"
       /\ \E i \in 1..Len(Entry(buf, s).hashes) :
             Entry(buf, s).hashes[i] = compute_total_hash(Entry(buf, id))

AuthenticatedIn(buf, id) == Holds(buf, id) /\ Entry(buf, id).state = "Authenticated"

\* C4: on a receive buffer an entry without signature becomes Authenticated
\* only in a step that leaves a successor of it held under its own
\* identifier, Authenticated, with the entry's total hash among its hashes;
\* the state an entry is handed to insert with is not used, and only
\* Authenticated entries are popped.
C4_Step ==
    mode = "recv" =>
       /\ \A e \in Held(buffer') :
             (/\ ~AuthenticatedIn(buffer, e.id)
              /\ e.state = "Authenticated"
              /\ e.signature = None)
             => Vouched(buffer', e.id)
       /\ \A i \in 1..Len(out') :
             /\ AuthenticatedIn(buffer, out'[i].id)
             /\ out'[i] = Entry(buffer, out'[i].id)

C4_UnsignedNeedsVoucher == [][C4_Step]_vars

C4_Witness ==
    /\ mode = "recv"
    /\ lastOp = "insert"
    /\ \E e \in Held(buffer) :
          e.state = "Authenticated" /\ e.signature = None /\ e.id = lastId

\* C6: an entry whose total hash an authenticated successor refused is in
\* state BadAuthentication from then on: it is never Authenticated and never
\* popped.
C6_BadAuthenticationLatches ==
    \A id \in rejected :
       /\ Holds(buffer, id) => Entry(buffer, id).state = "BadAuthentication"
       /\ id \notin SeqSet(popped)

\* C6, the second half alone: a refused entry is never Authenticated later.
\* It fails as soon as identifiers reach 4: insert 2 unsigned, insert 4
\* signed with wrong hashes (2 is refused), insert 1 signed with right hashes
\* (2 turns Authenticated).
C6_NeverAuthenticatedLater ==
    \A id \in rejected : ~AuthenticatedIn(buffer, id) /\ id \notin SeqSet(popped)

\* C7: insert_in_sequence of an identifier of the window succeeds only for
\* latest_id + 1, or for 0 when nothing was inserted yet; any other
\* identifier of the window fails with IllegalInsert and changes nothing.
InSequence(id) ==
    IF everInserted THEN id = latest_id + 1 ELSE id = 0

C7_Step ==
    (/\ IsSend
     /\ lastOp' = "insert_in_sequence"
     /\ InWindow(lowest_id, lastId'))
    => /\ lastRes' = "Ok" => InSequence(lastId')
       /\ ~InSequence(lastId') => lastRes' = "IllegalInsert" /\ UNCHANGED bufVars

C7_OnlyInSequence == [][C7_Step]_vars

\* C8: insert_in_sequence, insert and get_or_create refuse an identifier
\* outside [lowest_id, lowest_id + BUFF_SIZE) with OutOfBoundId and change
\* nothing, whether or not the identifier is in sequence; identifier 32 is
\* refused so after 0..31 were inserted and nothing popped.
ProbeIds == 0..(3 * BUFF_SIZE)

C8_Step ==
    (/\ lastOp' \in {"insert_in_sequence", "insert"}
     /\ ~InWindow(lowest_id, lastId'))
    => lastRes' = "OutOfBoundId" /\ UNCHANGED bufVars

C8_GetOrCreate ==
    \A id \in ProbeIds :
       IF InWindow(lowest_id, id)
       THEN get_or_create(buffer, lowest_id, id).res = "Ok"
       ELSE get_or_create(buffer, lowest_id, id) =
               [res |-> "OutOfBoundId", buffer |-> buffer]

C8_Saturated ==
    (/\ lastOp = "insert_in_sequence"
     /\ lastId = BUFF_SIZE
     /\ lowest_id = 0)
    => lastRes = "OutOfBoundId"

C8_OutOfWindowRefused ==
    [] (C8_GetOrCreate /\ C8_Saturated) /\ [][C8_Step]_vars

C8_Witness ==
    /\ mode = "cursor"
    /\ lastOp = "insert_in_sequence"
    /\ lastId = BUFF_SIZE
    /\ lastRes = "OutOfBoundId"
    /\ latest_id = BUFF_SIZE - 1
    /\ lowest_id = 0
    /\ \A id \in 0..(BUFF_SIZE - 1) : Holds(buffer, id)

\* C9: the cursor yields 3, 2, 4, 1, 0, 8, 7, 9, 6, 5, 13, ..., no identifier
\* twice, none skipped, each after all its predecessors; a forwarder that
\* follows it over inserted entries and pops what is ready before each call
\* never gets MissingHash; the first 9 calls succeed and the pop after them
\* returns 0..4 and leaves lowest_id = 5.
CursorStart == <<3, 2, 4, 1, 0, 8, 7, 9, 6, 5, 13>>

C9_CursorOrder ==
    mode = "cursor" =>
       /\ \A i, j \in 1..Len(visited) : i # j => visited[i] # visited[j]
       /\ \A i \in 1..Len(visited) :
             /\ i <= Len(CursorStart) => visited[i] = CursorStart[i]
             /\ \A k \in 1..Len(dependencies_in(visited[i])) :
                   \E j \in 1..(i - 1) : visited[j] = dependencies_in(visited[i])[k]
       /\ Len(visited) % 5 = 0 => SeqSet(visited) = 0..(Len(visited) - 1)
       /\ next_node_id_hash \notin SeqSet(visited)
       /\ (lastOp = "forwards_hash" /\ ~lazy) => lastRes # "MissingHash"
       /\ (lastOp = "forwards_hash" /\ popped = <<>> /\ Len(visited) <= 9)
             => lastRes = "Ok"
       /\ (lastOp = "pop_ready_in_sequence" /\ Len(visited) = 9 /\ popped = Ids(out))
             => Ids(out) = <<0, 1, 2, 3, 4>> /\ lowest_id = 5

C9_Witness ==
    /\ mode = "cursor"
    /\ latest_id = BUFF_SIZE - 1
    /\ Len(visited) = 9
    /\ lastOp = "pop_ready_in_sequence"
    /\ Ids(out) = <<0, 1, 2, 3, 4>>
    /\ lowest_id = 5

\* C9: a forwarder that pops before each call gets past the first window.
C9_WitnessFar ==
    /\ mode = "cursor"
    /\ ~lazy
    /\ lastOp = "forwards_hash"
    /\ lastId = 25
    /\ lastRes = "Ok"

\* C5: entries a send buffer produced, given in order to a receive buffer
\* that is popped after each insert, with every positive multiple of 5
\* signed: no insert fails, only Authenticated entries are popped, and the
\* pop that follows the insert of 5k leaves lowest_id = 5k + 1; of the 60
\* entries of the test, signed at 5, 10, ..., 55 and 59 alone, exactly
\* 0..55 are popped.
C5_RoundTrip ==
    mode = "deliver" =>
       /\ \A k \in 1..Len(nodes) :
             /\ nodes[k].id = k - 1
             /\ nodes[k].payload = Some(42)
             /\ nodes[k].state = "ReadySent"
       /\ lastOp = "insert" => lastRes = "Ok"
       /\ \A i \in 1..Len(out) : out[i].state = "Authenticated"
       /\ (pc \in {"feed", "done"} /\ fed > 1 /\ (fed - 1) % 5 = 0) => lowest_id = fed
       /\ Len(popped) = lowest_id
       /\ (pc = "done" /\ ~extraSigned) =>
             /\ Len(nodes) = TestNodes
             /\ Len(popped) = 56
             /\ \A i \in 1..56 : popped[i] = i - 1

C5_Witness ==
    /\ mode = "deliver"
    /\ pc = "done"
    /\ ~extraSigned
    /\ Len(popped) = 56
    /\ Holds(buffer, 56) /\ Entry(buffer, 56).state = "NotReady"
    /\ AuthenticatedIn(buffer, 59)

\* C10: for every valid entry and every payload, an empty or very short one
\* too, decode of the payload followed by the encoding returns an entry with
\* the same identifier, payload, hashes in order and signature.
C10_RoundTrip ==
    (mode = "codec" /\ pc = "decoded") =>
       /\ cdecoded.res = "Ok"
       /\ cdecoded.entry = [centry EXCEPT !.payload = Some(cpayload)]

\* C10, for the buffers decode can read its two 8-byte tails from: the round
\* trip holds whenever payload, hashes and signature make up 7 bytes or more,
\* and decode aborts otherwise.
C10_RoundTripWhenLong ==
    (mode = "codec" /\ pc = "decoded") =>
       IF Len(cpayload) + HASH_LEN * Len(centry.hashes)
            + (IF IsSome(centry.signature) THEN SIGN_LEN ELSE 0) >= TMP_LEN - 1
       THEN /\ cdecoded.res = "Ok"
            /\ cdecoded.entry = [centry EXCEPT !.payload = Some(cpayload)]
       ELSE cdecoded.res = "Panic"

\* C11: on a receive buffer an entry that carries a signature is Authenticated
\* only when the signature verifies; when it does not, the entry is in state
\* BadAuthentication, the call returns BadAuthentication and no predecessor
\* is authenticated through the entry.
C11_SignatureVerified ==
    mode = "recv" =>
       /\ \A e \in Held(buffer) :
             (IsSome(e.signature) /\ ~verify(e.signature)) => e.state = "BadAuthentication"
       /\ (/\ lastOp \in {"insert", "authenticate_node"}
           /\ Holds(buffer, lastId)
           /\ IsSome(Entry(buffer, lastId).signature)
           /\ ~verify(Entry(buffer, lastId).signature))
          => lastRes = "BadAuthentication"

\* C12: on a receive buffer, insert of an entry whose identifier is held
\* returns Ok and changes nothing: not the stored entry, not another slot, not
\* lowest_id, whatever the duplicate holds; no authentication runs, so no
\* entry is refused by the call either.
C12_Step ==
    (mode = "recv" /\ lastOp' = "insert" /\ Holds(buffer, lastId')) =>
       /\ lastRes' = "Ok"
       /\ buffer' = buffer
       /\ lowest_id' = lowest_id
       /\ rejected' = rejected

C12_DuplicateInsert == [][C12_Step]_vars

\* An insert that returned Ok for an identifier refused earlier: the entry was
\* held when insert was called (a first insert that returns Ok refuses
\* nothing, and a popped identifier is out of the window), and it is still
\* NotReady though a signed duplicate was among the entries offered.
C12_Witness ==
    /\ mode = "recv"
    /\ lastOp = "insert"
    /\ lastRes = "Ok"
    /\ lastId \in rejected
    /\ Holds(buffer, lastId)
    /\ Entry(buffer, lastId).state = "NotReady"

\* C13: j is a successor of i (dependencies_out) exactly when i is a
\* predecessor of j (dependencies_in); dependencies_in drops what would fall
\* below zero and otherwise follows the table of a = 3, p = 5, residue 0
\* having the offsets -15, -5, -4, -1, +1; and no walk along dependencies_out
\* comes back to where it started.
C13_GraphInverse ==
    (mode = "graph" /\ pc = "walk") =>
       /\ (gj \in SeqSet(gout)) <=> (gi \in SeqSet(gin))
       /\ \A k \in 1..Len(gin) : gin[k] >= 0
       /\ (gj % 5 = 0) =>
             SeqSet(gin) = {v \in {gj - 15, gj - 5, gj - 4, gj - 1, gj + 1} : v >= 0}
       /\ gmoved => gcur # gi

\* Entry 1 forwards its hash to entry 0, whose predecessors at -15, -5, -4 and
\* -1 do not exist, and a walk from 1 has moved on.
C13_Witness ==
    /\ mode = "graph" /\ pc = "walk"
    /\ gi = 1 /\ gj = 0
    /\ gin = <<1>>
    /\ 0 \in SeqSet(gout)
    /\ gmoved /\ gcur = 15

\* C14: on a send buffer forwards_hash of a NotReady entry that has all its
\* hashes fails with OutOfBoundId when a successor lies at or beyond
\* lowest_id + BUFF_SIZE; a call that returns an error leaves the buffer as
\* it was, so no entry is marked ReadySent by a call that fails; and the
\* call succeeds, marking the entry and handing a hash to each successor,
\* once the hashes are there and the successors are inside the window.
Forwardable(buf, id) ==
    /\ Holds(buf, id)
    /\ Entry(buf, id).state = "NotReady"
    /\ Len(Entry(buf, id).hashes) = Len(dependencies_in(id))

BeyondWindow(low, id) ==
    \E k \in 1..Len(dependencies_out(id)) : dependencies_out(id)[k] >= low + BUFF_SIZE

C14_Step ==
    (IsSend /\ lastOp' = "forwards_hash") =>
       /\ lastRes' \in {"Ok", "MissingHash", "OutOfBoundId"}
       /\ lastRes' # "Ok" => buffer' = buffer
       /\ (Forwardable(buffer, lastId') /\ BeyondWindow(lowest_id, lastId'))
             => lastRes' = "OutOfBoundId"
       /\ (Forwardable(buffer, lastId') /\ ~BeyondWindow(lowest_id, lastId'))
             => /\ lastRes' = "Ok"
                /\ Entry(buffer', lastId').state = "ReadySent"
                /\ \A k \in 1..Len(dependencies_out(lastId')) :
                      LET s == dependencies_out(lastId')[k] IN
                      /\ Holds(buffer', s)
                      /\ Len(Entry(buffer', s).hashes) =
                            (IF Holds(buffer, s) THEN Len(Entry(buffer, s).hashes) ELSE 0) + 1

C14_WitnessRetried ==
    /\ IsSend
    /\ lastOp = "forwards_hash"
    /\ lastRes = "Ok"
    /\ lowest_id > 0
    /\ Holds(buffer, lastId)
    /\ Entry(buffer, lastId).state = "ReadySent"
    /\ BeyondWindow(0, lastId)

\* C15: every occupied slot i holds an entry whose identifier is i modulo
\* BUFF_SIZE and lies in lowest_id .. lowest_id + BUFF_SIZE - 1; and no
\* operation overwrites a held entry: an entry held before a step is, after
\* it, held under the same identifier or was returned by the pop.
C15_SlotsInWindow ==
    mode \in {"send", "recv", "cursor"} =>
       \A i \in Slots :
          IsSome(buffer[i]) =>
             /\ index(Unwrap(buffer[i]).id) = i
             /\ lowest_id <= Unwrap(buffer[i]).id
             /\ Unwrap(buffer[i]).id < lowest_id + BUFF_SIZE

C15_Step ==
    mode \in {"send", "recv", "cursor"} =>
       \A i \in Slots :
          IsSome(buffer[i]) =>
             \/ IsSome(buffer'[i]) /\ Unwrap(buffer'[i]).id = Unwrap(buffer[i]).id
             \/ /\ ~IsSome(buffer'[i])
                /\ lastOp' = "pop_ready_in_sequence"
                /\ Unwrap(buffer[i]) \in SeqSet(out')

C15_NoOverwrite == [] C15_SlotsInWindow /\ [][C15_Step]_vars

\* The window has moved and is full up to its last slot: entries 5 and above
\* are held after a pop, among them one in the slot entry 0 was in.
C15_Witness ==
    /\ mode = "cursor"
    /\ lowest_id >= 5
    /\ IsSome(buffer[0])
    /\ Unwrap(buffer[0]).id = BUFF_SIZE

\* C16: on a send buffer lowest_id <= latest_id + 1 in every reachable state:
\* pop_ready_in_sequence does not move lowest_id past an identifier that was
\* not inserted, so insert_in_sequence of latest_id + 1 is never below the
\* window.
C16_LowestBelowLatest ==
    IsSend => lowest_id <= latest_id + 1

\* C20: on a send buffer an entry is ReadySent only after insert_in_sequence
\* gave it its payload: every held ReadySent entry and every entry returned
\* by pop_ready_in_sequence has a payload.
C20_ReadyHasPayload ==
    IsSend =>
       /\ \A e \in Held(buffer) : e.state = "ReadySent" => IsSome(e.payload)
       /\ \A i \in 1..Len(out) : IsSome(out[i].payload)

\* C17: while an entry is held its state only moves forward: from NotReady
\* to ReadySent on a send buffer, from NotReady to Authenticated or to
\* BadAuthentication on a receive buffer; no step takes a held entry back to
\* NotReady or from one of these states to another.
Forward(is_send, a, b) ==
    \/ a = b
    \/ /\ a = "NotReady"
       /\ b \in (IF is_send THEN {"ReadySent"} ELSE {"Authenticated", "BadAuthentication"})

C17_Step ==
    mode \in {"send", "recv", "cursor"} =>
       \A i \in Slots :
          (/\ IsSome(buffer[i]) /\ IsSome(buffer'[i])
           /\ Unwrap(buffer'[i]).id = Unwrap(buffer[i]).id)
          => Forward(IsSend, Unwrap(buffer[i]).state, Unwrap(buffer'[i]).state)

C17_StateMonotonic == [][C17_Step]_vars

\* insert_in_sequence has just given its payload to an entry that hash
\* forwarding had created and that was ReadySent already.
C17_Witness ==
    /\ mode = "send"
    /\ lastOp = "insert_in_sequence"
    /\ lastRes = "Ok"
    /\ Holds(buffer, lastId)
    /\ Entry(buffer, lastId).state = "ReadySent"
    /\ IsSome(Entry(buffer, lastId).payload)

\* C18: decode of any byte sequence returns an entry or the Decoding error
\* and never aborts; it returns Decoding for an input too short to hold the
\* two VarInts of the tail and, where the two VarInts can be read, for a
\* declared length that leaves no positive payload length, for a region too
\* short for the hashes of the identifier, and for a remainder of 1 to 63
\* bytes after the hashes.
C18_DecodeTotal ==
    (mode = "wire" /\ pc = "decoded") =>
       /\ cdecoded.res \in {"Ok", "Decoding"}
       /\ Len(cbytes) < 2 => cdecoded.res = "Decoding"
       /\ Len(cbytes) >= 2 * TMP_LEN =>
             LET d_id  == decode_var(Reverse(Tail8(cbytes, Len(cbytes))))
                 d_len == decode_var(Reverse(Tail8(cbytes, Len(cbytes) - d_id.len)))
                 rest  == d_len.value - HASH_LEN * Len(dependencies_in(d_id.value))
             IN  (d_id.ok /\ d_len.ok) =>
                    /\ Len(cbytes) - d_id.len - d_len.len - d_len.value <= 0
                          => cdecoded.res = "Decoding"
                    /\ rest < 0 => cdecoded.res = "Decoding"
                    /\ (rest > 0 /\ rest < SIGN_LEN) => cdecoded.res = "Decoding"

\* C19: under the driver that pushes entries in sequence until insert fails,
\* calls forwards_hash on every identifier of the window and pops, over and
\* over, every identifier inserted (and followed by four more) is popped in
\* the end, and an identifier insert_in_sequence refused with OutOfBoundId
\* comes into the window by later pops.
C19_Progress ==
    /\ \A i \in 0..(TestNodes - 1) :
          (mode = "produce" /\ everInserted /\ i <= latest_id) ~> (i \in SeqSet(popped))
    /\ (mode = "produce" /\ lastOp = "insert_in_sequence" /\ lastRes = "OutOfBoundId")
          ~> (next_id < lowest_id + BUFF_SIZE)

\* The driver has inserted an identifier beyond the second window: the
\* OutOfBoundId that ended the earlier pushes was cleared by pops.
C19_Witness ==
    /\ mode = "produce"
    /\ lastOp = "insert_in_sequence"
    /\ lastRes = "Ok"
    /\ lastId >= 2 * BUFF_SIZE
    /\ lowest_id > BUFF_SIZE

\* C21: the hashes of every entry popped from a send buffer are in
\* predecessor order: the i-th hash was forwarded by the i-th identifier of
\* dependencies_in(id), whatever the order of the forwards_hash calls.
C21_PredecessorOrder ==
    IsSend =>
       \A i \in 1..Len(out) : OriginOf(origin, out[i].id) = dependencies_in(out[i].id)

\* Position of v in seq (0 when absent).
Pos(seq, v) == IF \E k \in 1..Len(seq) : seq[k] = v
               THEN CHOOSE k \in 1..Len(seq) : seq[k] = v
               ELSE 0

\* C21 as the code has it: the hashes of every entry popped from a send
\* buffer are one per predecessor, in the order in which the predecessors
\* forwarded: a predecessor that needs the hash of another one comes after
\* it, so an entry of residue 4 holds the hash of id - 1 before that of
\* id - 2, the reverse of dependencies_in.
C21_ForwardOrder ==
    IsSend =>
       \A i \in 1..Len(out) :
          LET e   == out[i]
              org == OriginOf(origin, e.id)
          IN  /\ Len(e.hashes) = Len(org)
              /\ Len(org) = Len(dependencies_in(e.id))
              /\ SeqSet(org) = SeqSet(dependencies_in(e.id))
              /\ \A p, q \in SeqSet(org) :
                    p \in SeqSet(dependencies_in(q)) => Pos(org, p) < Pos(org, q)
              /\ e.id % 5 = 4 => org = <<e.id - 1, e.id - 2>>

\* The pop has returned entry 9, whose predecessors are 7 and 8 in that
\* order and whose hashes came from 8 and then from 7.
C21_Witness ==
    /\ IsSend
    /\ \E i \in 1..Len(out) :
          /\ out[i].id = 9
          /\ dependencies_in(9) = <<7, 8>>
          /\ OriginOf(origin, 9) = <<8, 7>>

\* Number of times v occurs in seq.
Occurrences(seq, v) == Cardinality({k \in 1..Len(seq) : seq[k] = v})

\* C22: in a send buffer the hashes of every entry come from members of
\* dependencies_in(id) only, at most one per predecessor, so there are never
\* more hashes than predecessors; and every successor of a ReadySent entry
\* has received its hash exactly once.
C22_OneHashPerPredecessor ==
    IsSend =>
       \A e \in Held(buffer) :
          LET id  == e.id
              org == OriginOf(origin, e.id)
          IN  /\ Len(e.hashes) = Len(org)
              /\ SeqSet(org) \subseteq SeqSet(dependencies_in(id))
              /\ \A p \in SeqSet(org) : Occurrences(org, p) = 1
              /\ Len(e.hashes) <= Len(dependencies_in(id))
              /\ e.state = "ReadySent" =>
                    \A k \in 1..Len(dependencies_out(id)) :
                       Occurrences(OriginOf(origin, dependencies_out(id)[k]), id) = 1

\* forwards_hash has just been called again on entry 2: its successor 4,
\* which needs the hash of 2, has already forwarded, and both successors
\* hold the hash of 2 once.
C22_Witness ==
    /\ IsSend
    /\ lastOp = "forwards_hash"
    /\ lastRes = "Ok"
    /\ lastId = 2
    /\ Holds(buffer, 2) /\ Entry(buffer, 2).state = "ReadySent"
    /\ Holds(buffer, 4) /\ Entry(buffer, 4).state = "ReadySent"
    /\ Holds(buffer, 1)
    /\ Occurrences(OriginOf(origin, 1), 2) = 1
    /\ Occurrences(OriginOf(origin, 4), 2) = 1

\* Length of the longest run of consecutive identifiers from low whose
\* slots hold that identifier in the state target.
MaximalRun(buf, low, target) ==
    CHOOSE k \in 0..BUFF_SIZE :
       /\ \A j \in 0..(k - 1) : PopQualifies(buf, low + j, target)
       /\ k = BUFF_SIZE \/ ~PopQualifies(buf, low + k, target)

\* C23: pop_ready_in_sequence removes and returns exactly the maximal run of
\* consecutive identifiers from lowest_id whose slots hold that identifier in
\* the state to pop, advances lowest_id by the length of the run, returns
\* nothing and changes nothing when the entry of lowest_id does not qualify,
\* and leaves every slot from the stopping point on as it was.
C23_Step ==
    lastOp' = "pop_ready_in_sequence" =>
       LET k == MaximalRun(buffer, lowest_id, state_to_pop) IN
          /\ out' = [j \in 1..k |-> Unwrap(buffer[index(lowest_id + j - 1)])]
          /\ lowest_id' = lowest_id + k
          /\ \A i \in Slots :
                buffer'[i] = IF \E j \in 0..(k - 1) : index(lowest_id + j) = i
                             THEN None ELSE buffer[i]
          /\ ~PopQualifies(buffer, lowest_id, state_to_pop) =>
                /\ out' = <<>>
                /\ buffer' = buffer
                /\ lowest_id' = lowest_id
C23_PopMaximalRun == [][C23_Step]_vars

\* A pop has returned several entries and stopped at a held entry in another
\* state, with an entry in the state to pop left beyond it.
C23_Witness ==
    /\ lastOp = "pop_ready_in_sequence"
    /\ Len(out) > 3
    /\ Holds(buffer, lowest_id)
    /\ Entry(buffer, lowest_id).state # state_to_pop
    /\ \E e \in Held(buffer) : e.id > lowest_id /\ e.state = state_to_pop

\* A pop has returned nothing although entries are held.
C23_WitnessEmpty ==
    /\ lastOp = "pop_ready_in_sequence"
    /\ out = <<>>
    /\ \E e \in Held(buffer) : e.state = state_to_pop

\* The identifiers of ids that can be reached from a member of from by
\* following predecessor edges through members of ids.
RECURSIVE ReachableFrom(_, _)
ReachableFrom(from, ids) ==
    LET more == from \cup { p \in ids : \E q \in from : p \in SeqSet(dependencies_in(q)) }
    IN  IF more = from THEN from ELSE ReachableFrom(more, ids)

\* C24: on a receive buffer that is not popped, after honest in-window
\* entries were inserted in any order, every insert has returned Ok and the
\* Authenticated entries are exactly the inserted entries that can be reached
\* from an inserted signed entry by following predecessor edges through
\* inserted entries; the others are NotReady.  The final states depend on
\* the set inserted alone, and no authenticate sweep is needed.
C24_OrderIndependent ==
    mode = "order" =>
       LET inserted == {nodes[i].id : i \in 1..Len(nodes)}
           signed   == {nodes[i].id : i \in {j \in 1..Len(nodes) : IsSome(nodes[j].signature)}}
           reach    == ReachableFrom(signed, inserted)
       IN  /\ lastRes = "Ok"
           /\ {e.id : e \in Held(buffer)} = inserted
           /\ \A e \in Held(buffer) :
                 e.state = IF e.id \in reach THEN "Authenticated" ELSE "NotReady"

\* Entries 1, 2 and 4 were inserted unsigned and then entry 0 signed: all
\* of them are Authenticated by that one insert.
C24_Witness ==
    /\ mode = "order"
    /\ Len(nodes) = 4
    /\ {nodes[i].id : i \in 1..3} = {1, 2, 4}
    /\ \A i \in 1..3 : ~IsSome(nodes[i].signature)
    /\ nodes[4].id = 0 /\ IsSome(nodes[4].signature)
    /\ \A e \in Held(buffer) : e.state = "Authenticated"

\* The same set with the signed entry 0 inserted first.
C24_WitnessSignedFirst ==
    /\ mode = "order"
    /\ Len(nodes) = 4
    /\ nodes[1].id = 0 /\ IsSome(nodes[1].signature)
    /\ {nodes[i].id : i \in 2..4} = {1, 2, 4}
    /\ \A i \in 2..4 : ~IsSome(nodes[i].signature)
    /\ \A e \in Held(buffer) : e.state = "Authenticated"

\* The entry id is Authenticated after the step and was not before it.
BecameAuthenticated(id) ==
    /\ Holds(buffer', id) /\ Entry(buffer', id).state = "Authenticated"
    /\ ~(Holds(buffer, id) /\ Entry(buffer, id).state = "Authenticated")

\* The held entry p is not Authenticated after the step and a parent has
\* refused its hash.
RefusedAfter(p) ==
    /\ Holds(buffer', p)
    /\ Entry(buffer', p).state # "Authenticated"
    /\ p \in rejected'

\* C25: a call that leaves its entry newly Authenticated has tried every held
\* predecessor, each of which is then Authenticated or was refused, even
\* when an earlier predecessor was refused; and insert returns
\* BadAuthentication only when the inserted entry is not Authenticated.
C25_Step ==
    (mode = "refuse" /\ lastOp' \in {"insert", "authenticate_node"}) =>
       LET id   == lastId'
           deps == dependencies_in(id)
       IN  /\ BecameAuthenticated(id) =>
                 \A k \in 1..Len(deps) :
                    Holds(buffer', deps[k]) =>
                       \/ Entry(buffer', deps[k]).state = "Authenticated"
                       \/ deps[k] \in rejected'
           /\ (lastOp' = "insert" /\ lastRes' = "BadAuthentication") =>
                 ~(Holds(buffer', id) /\ Entry(buffer', id).state = "Authenticated")
C25_AllPredecessorsTried == [][C25_Step]_vars

\* C25 as the code has it: the loop over the predecessors of a newly
\* Authenticated entry stops at the first failure and returns it.  One call
\* refuses at most one entry; when it returns Ok every held predecessor is
\* Authenticated; when the first held predecessor that is not Authenticated
\* was refused the call returns BadAuthentication and the later predecessors
\* are neither changed nor refused by it; and insert returns
\* BadAuthentication when the inserted entry was refused or when it was
\* authenticated and an entry below it was refused.
C25_AmendedStep ==
    (mode = "refuse" /\ lastOp' \in {"insert", "authenticate_node"}) =>
       LET id   == lastId'
           deps == dependencies_in(id)
           held == {e.id : e \in Held(buffer')}
       IN  /\ Cardinality(rejected' \ rejected) <= 1
           /\ BecameAuthenticated(id) =>
                 /\ lastRes' = "Ok" =>
                       \A k \in 1..Len(deps) :
                          Holds(buffer', deps[k]) =>
                             Entry(buffer', deps[k]).state = "Authenticated"
                 /\ \A k \in 1..Len(deps) :
                       ( /\ RefusedAfter(deps[k])
                         /\ \A j \in 1..(k - 1) :
                               Holds(buffer', deps[j]) =>
                                  Entry(buffer', deps[j]).state = "Authenticated" )
                       => /\ lastRes' = "BadAuthentication"
                          /\ \A j \in (k + 1)..Len(deps) :
                                /\ buffer'[index(deps[j])] = buffer[index(deps[j])]
                                /\ deps[j] \in rejected' => deps[j] \in rejected
           /\ (lastOp' = "insert" /\ lastRes' = "BadAuthentication") =>
                 /\ Holds(buffer', id)
                 /\ \/ RefusedAfter(id)
                    \/ /\ Entry(buffer', id).state = "Authenticated"
                       /\ \E p \in ReachableFrom({id}, held) \ {id} : RefusedAfter(p)
C25_StopsAtFirstRefusal == [][C25_AmendedStep]_vars

\* insert of a signed entry 1 has returned BadAuthentication: entry 1 is
\* Authenticated, its first predecessor 2 was refused, and its second
\* predecessor 4 is held, not Authenticated and was never tried.
C25_Witness ==
    /\ mode = "refuse"
    /\ lastOp = "insert"
    /\ lastId = 1
    /\ lastRes = "BadAuthentication"
    /\ Holds(buffer, 1) /\ Entry(buffer, 1).state = "Authenticated"
    /\ dependencies_in(1) = <<2, 4>>
    /\ Holds(buffer, 2) /\ Entry(buffer, 2).state = "NotReady" /\ 2 \in rejected
    /\ Holds(buffer, 4) /\ Entry(buffer, 4).state = "NotReady" /\ 4 \notin rejected

\* The largest number of predecessors an identifier has.
MaxPredecessors ==
    LET lens == {Len(dependencies_in(id)) : id \in 0..(2 * ALTA_P)}
    IN  CHOOSE n \in lens : \A m \in lens : m <= n

\* The entries that are Authenticated after the step and were not before it.
NewlyAuthenticated ==
    {e \in Held(buffer') :
        /\ e.state = "Authenticated"
        /\ ~(Holds(buffer, e.id) /\ Entry(buffer, e.id).state = "Authenticated")}

\* C26: every call of insert or authenticate_node comes to an end, and each
\* recursive call in it is made for a predecessor of an entry that the call
\* has just changed to Authenticated: there are no more recursive calls than
\* predecessors of the newly Authenticated entries, hence no more than the
\* occupied slots times the largest number of predecessors.
C26_Step ==
    (mode = "refuse" /\ lastOp' \in {"insert", "authenticate_node"}) =>
       /\ calls' <= Cardinality(UNION { {<<e.id, k>> : k \in 1..Len(e.dependencies)} :
                                          e \in NewlyAuthenticated })
       /\ calls' <= Cardinality(Held(buffer')) * MaxPredecessors
       /\ calls' > 0 => lastId' \in {e.id : e \in NewlyAuthenticated}
C27_Step ==
    (mode = "recv" /\ lastOp' = "authenticate_node") =>
       LET id == lastId' IN
          /\ ( \/ ~IsSome(buffer[index(id)])
               \/ Unwrap(buffer[index(id)]).id # id
               \/ Unwrap(buffer[index(id)]).state = "Authenticated" )
             => /\ lastRes' = "Ok"
                /\ buffer' = buffer
                /\ lowest_id' = lowest_id
                /\ rejected' = rejected
          /\ \A e \in Held(buffer) :
                e.state = "Authenticated" => buffer'[index(e.id)] = Some(e)
C27_AuthenticateIdempotent == [][C27_Step]_vars

\* authenticate_node was called on the Authenticated entry 0 while its
\* predecessor 1 is held and was refused.
C27_Witness ==
    /\ mode = "recv"
    /\ lastOp = "authenticate_node"
    /\ lastId = 0
    /\ lastRes = "Ok"
    /\ Holds(buffer, 0) /\ Entry(buffer, 0).state = "Authenticated"
    /\ Holds(buffer, 1) /\ Entry(buffer, 1).state = "NotReady" /\ 1 \in rejected

\* authenticate_node was called on an identifier whose slot holds another
\* identifier.
C27_WitnessOtherId ==
    /\ mode = "recv"
    /\ lastOp = "authenticate_node"
    /\ IsSome(buffer[index(lastId)])
    /\ Unwrap(buffer[index(lastId)]).id # lastId

\* authenticate_node was called on an identifier whose slot is empty while
\* entries are held.
C27_WitnessEmptySlot ==
    /\ mode = "recv"
    /\ lastOp = "authenticate_node"
    /\ ~IsSome(buffer[index(lastId)])
    /\ Held(buffer) # {}

===========================================================================
